---------------------------- MODULE Spec2Model ----------------------------
(***************************************************************************)
(* A model of the glyph timeline engine of tactom-experiments:             *)
(*   src/src/event.rs   the event type and the paced wire encoder          *)
(*   src/src/glyphs.rs  the alphabets and the timeline builders            *)
(*   src/src/main.rs    calibrate_until_enter, play_and_wait, the senders   *)
(* An event is a record [ms_time, ev_type]; a glyph is a sequence of       *)
(* events.  ms_time is a u16 and ev_type a u8, as in event.rs.             *)
(***************************************************************************)
EXTENDS Integers, Sequences, FiniteSets, TLC

VARIABLES
    \* --- a call of one of the timeline builders (glyphs.rs) ---
    fn,          \* the builder that was called, "none" before any call
    in_evs,      \* equal_spaced_evs: the trigger bytes
    in_space,    \* equal_spaced_evs / retime_eq_spaced: space_ms
    in_glyphs,   \* stitch_evs: the glyphs; retime / duration: <<glyph>>
    out,         \* the Vec<Ev> returned
    ret,         \* the u16 returned by glyph_duration
    panicked,    \* the call ended in a panic
    nested,      \* stitch_evs called on its own results: what came back
    \* --- one call of queue_events_as_raw (event.rs) ---
    events,      \* the glyph handed to the encoder
    delims,      \* the frame delimiters the encoder is compiled against
    pc,          \* where the encoder is
    bytes,       \* the collected frame (the Vec<u8> of line 51)
    idx,         \* how many bytes of the frame the loop has finished
    wire,        \* the bytes the transport has accepted
    calls,       \* the transport calls made, in order
    result,      \* what the encoder returned: "none", "ok", "err"
    \* --- a lookup in the alphabet registry (glyphs.rs) ---
    alphabets,   \* the registry init_alphabets returned
    a_name,      \* the alphabet looked into
    q_kind,      \* "none", "char" (get_glyph) or "other" (get_other_glyph)
    q_char,      \* the character looked up, as its code point
    q_key,       \* the string looked up
    got,         \* the glyph the lookup returned
    \* --- one run of an experiment (main.rs) ---
    exp,         \* cli.exp: "dropout", "alphabet", "draw"; "none": no run
    cpc,         \* where the main task is
    ci,          \* calibrate_until_enter: the u8 i
    done,        \* calibrate_until_enter: the flag behind the RwLock
    kpc,         \* where the spawned keypress task is
    rounds       \* calibrate_until_enter: transmissions begun in this call

bvars == <<fn, in_evs, in_space, in_glyphs, out, ret, panicked, nested>>
wvars == <<events, delims, pc, bytes, idx, wire, calls, result>>
avars == <<alphabets, a_name, q_kind, q_char, q_key, got>>
cvars == <<exp, cpc, ci, done, kpc, rounds>>
vars == <<fn, in_evs, in_space, in_glyphs, out, ret, panicked, nested,
          events, delims, pc, bytes, idx, wire, calls, result,
          alphabets, a_name, q_kind, q_char, q_key, got,
          exp, cpc, ci, done, kpc, rounds>>

-----------------------------------------------------------------------------
(* event.rs: the event type *)

\* u16 arithmetic is modulo 2^16
U16 == 65536

\* u8 values are below 2^8; also the weight of the high byte of a u16
U8 == 256

\* EvType::EndGlyph as u8
EndGlyph == 12

\* Ev::new
Ev(ms_time, ev_type) == [ms_time |-> ms_time, ev_type |-> ev_type]

-----------------------------------------------------------------------------
(* glyphs.rs: the timeline builders.  Each u16 operation is given as the   *)
(* wrapped value together with a predicate telling whether it overflowed:  *)
(* a build with overflow checks panics there, one without them wraps.      *)

\* i as u16 * space_ms, wrapped (equal_spaced_evs, line 135); before it the
\* slip of adding instead of multiplying
spaced_time_mut(i, space_ms) == ((i % U16) + space_ms) % U16
\* the same product, saturating at u16::MAX instead
spaced_time_saturating(i, space_ms) ==
    IF (i % U16) * space_ms >= U16 THEN U16 - 1 ELSE (i % U16) * space_ms
spaced_time(i, space_ms) == ((i % U16) * space_ms) % U16

\* whether i as u16 * space_ms overflows a u16
spaced_overflows(i, space_ms) == (i % U16) * space_ms >= U16

\* evs.iter().cloned().chain(iter::once(EndGlyph as u8))
\* the same chain without the terminator
chain_end_none(evs) == evs
chain_end(evs) == Append(evs, EndGlyph)

equal_spaced_evs(evs, space_ms) ==
    LET tags == chain_end(evs)
    IN  [k \in 1..Len(tags) |-> Ev(spaced_time(k - 1, space_ms), tags[k])]

equal_spaced_overflows(evs, space_ms) ==
    \E k \in 1..(Len(evs) + 1) : spaced_overflows(k - 1, space_ms)

\* i as u16 * space_ms, wrapped (retime_eq_spaced, line 144); before it the
\* slip of keeping the event's old timestamp as an offset
retime_time_mut(i, space_ms, ev) == (ev.ms_time + (i % U16) * space_ms) % U16
retime_time(i, space_ms, ev) == ((i % U16) * space_ms) % U16

retime_eq_spaced(glyph, space_ms) ==
    [k \in 1..Len(glyph) |->
        Ev(retime_time(k - 1, space_ms, glyph[k]), glyph[k].ev_type)]

retime_overflows(glyph, space_ms) ==
    \E k \in 1..Len(glyph) : spaced_overflows(k - 1, space_ms)

\* stitch_evs, line 155-156: the clock after an EndGlyph event; before it
\* the slip of setting the clock instead of advancing it
stitch_advance_mut(time, ev) == ev.ms_time
stitch_advance(time, ev) == (time + ev.ms_time) % U16

\* stitch_evs, line 158: the time of a copied event; before it the slip of
\* copying the event unshifted
stitch_shift_mut(time, ev) == ev.ms_time
stitch_shift(time, ev) == (ev.ms_time + time) % U16

\* stitch_evs, line 154: the events that move the clock and are not copied;
\* before it the slip of treating no event so
stitch_is_end_mut(ev) == FALSE
stitch_is_end(ev) == ev.ev_type = EndGlyph

\* the state of stitch_evs' loops: out, time, end_time (lines 149-151)
StitchStart == [out |-> <<>>, time |-> 0, end_time |-> 0, overflow |-> FALSE]

\* one turn of the inner loop (lines 153-161)
stitch_event(st, ev) ==
    IF stitch_is_end(ev)
    THEN [st EXCEPT !.end_time = stitch_advance(st.time, ev),
                    !.time = stitch_advance(st.time, ev),
                    !.overflow = st.overflow \/ st.time + ev.ms_time >= U16]
    ELSE [st EXCEPT !.out = Append(st.out, Ev(stitch_shift(st.time, ev), ev.ev_type)),
                    !.overflow = st.overflow \/ ev.ms_time + st.time >= U16]

\* the inner loop over one glyph, from its k-th event on
RECURSIVE stitch_glyph(_, _, _)
stitch_glyph(st, g, k) ==
    IF k > Len(g) THEN st ELSE stitch_glyph(stitch_event(st, g[k]), g, k + 1)

\* the outer loop over the glyphs, from the j-th on (line 152)
RECURSIVE stitch_loop(_, _, _)
stitch_loop(st, glyphs, j) ==
    IF j > Len(glyphs) THEN st
    ELSE stitch_loop(stitch_glyph(st, glyphs[j], 1), glyphs, j + 1)

\* stitch_evs, with the final push of line 163; before it the slip of
\* leaving the final push out
stitch_evs_unterminated(glyphs) == stitch_loop(StitchStart, glyphs, 1).out
stitch_evs(glyphs) ==
    LET st == stitch_loop(StitchStart, glyphs, 1)
    IN  Append(st.out, Ev(st.end_time, EndGlyph))

stitch_overflows(glyphs) == stitch_loop(StitchStart, glyphs, 1).overflow

\* glyph.last().map(|ev| ev.ms_time).unwrap_or(0); before it the slip of
\* reading the time of the EndGlyph event only
glyph_duration_of_end(glyph) ==
    IF glyph # <<>> /\ glyph[Len(glyph)].ev_type = EndGlyph
    THEN glyph[Len(glyph)].ms_time ELSE 0
glyph_duration(glyph) == IF glyph = <<>> THEN 0 ELSE glyph[Len(glyph)].ms_time

-----------------------------------------------------------------------------
(* The inputs the builders are called with *)

\* the longest trigger table handed to equal_spaced_evs
MaxTrig == 3

\* the longest glyph handed to retime_eq_spaced and glyph_duration
MaxEvs == 3

\* the longest glyph handed to stitch_evs, and the most glyphs in one call
MaxStitchEvs == 2
MaxGlyphs == 3

\* all sequences over S of length at most n
SeqsUpTo(S, n) == UNION {[1..m -> S] : m \in 0..n}

\* trigger bytes: the first and last motor, and the byte of EndGlyph itself
TrigBytes == {0, 11, EndGlyph}

\* the "slash" table of init_alphabets (line 203)
SlashTriggers == <<3, 6, 5, 8>>

TriggerSeqs == SeqsUpTo(TrigBytes, MaxTrig) \cup {SlashTriggers}

\* spacings: none, the registry's 30 and 50, the largest that three
\* triggers bear (3 * 21845 = 65535), and one that overflows at once
Spacings == {0, 30, 50, 21845, 40000}

EvTags == {0, 11, EndGlyph}
EvTimes == {0, 50, 40000}
EvSet == {Ev(t, e) : t \in EvTimes, e \in EvTags}

\* any event sequence: a &[Ev] need not be a well-formed glyph
GlyphPool == SeqsUpTo(EvSet, MaxEvs)

\* A glyph as the data model has it: exactly one EndGlyph, which is last,
\* and timestamps that never decrease
WellFormed(g) ==
    /\ Len(g) >= 1
    /\ g[Len(g)].ev_type = EndGlyph
    /\ \A k \in 1..(Len(g) - 1) : g[k].ev_type # EndGlyph
    /\ \A k \in 1..(Len(g) - 1) : g[k].ms_time <= g[k + 1].ms_time

\* timestamps for stitching: 25535 + 40000 = 65535 is the largest sum a u16
\* holds, 40000 + 40000 is past it
StitchEvSet == {Ev(t, e) : t \in {25535, 40000}, e \in {1, EndGlyph}}

\* glyphs that break the data model: empty, no EndGlyph, timestamps that
\* decrease, two EndGlyphs
Malformed ==
    { <<>>,
      <<Ev(50, 1)>>,
      <<Ev(40000, 1), Ev(50, EndGlyph)>>,
      <<Ev(50, EndGlyph), Ev(50, EndGlyph)>> }

\* the two glyphs of the documented stitching scenario, and the glyph
\* without triggers, of duration 0
ScenarioA == equal_spaced_evs(<<0>>, 50)
ScenarioB == equal_spaced_evs(<<1>>, 50)
NoTriggers == equal_spaced_evs(<<>>, 50)

StitchPool ==
    {g \in SeqsUpTo(StitchEvSet, MaxStitchEvs) : WellFormed(g)}
        \cup Malformed \cup {ScenarioA, ScenarioB, NoTriggers}

StitchInputs == SeqsUpTo(StitchPool, MaxGlyphs)

-----------------------------------------------------------------------------
(* The builders as calls.  Whether the build checks overflow is not fixed   *)
(* by the sources, so a call that overflows either panics or wraps.         *)

BInit ==
    /\ fn = "none"
    /\ in_evs = <<>>
    /\ in_space = 0
    /\ in_glyphs = <<>>
    /\ out = <<>>
    /\ ret = 0
    /\ panicked = FALSE
    /\ nested = <<>>

CallEqualSpaced ==
    /\ fn = "none"
    /\ pc = "idle"     \* the one thread is not inside the encoder
    /\ \E evs \in TriggerSeqs, space_ms \in Spacings, overflow_checks \in BOOLEAN :
        /\ fn' = "equal_spaced_evs"
        /\ in_evs' = evs
        /\ in_space' = space_ms
        /\ panicked' = (overflow_checks /\ equal_spaced_overflows(evs, space_ms))
        /\ out' = IF panicked' THEN <<>> ELSE equal_spaced_evs(evs, space_ms)
    /\ UNCHANGED <<nested, in_glyphs, ret, wvars, avars, cvars>>

CallRetime ==
    /\ fn = "none"
    /\ \E glyph \in GlyphPool, space_ms \in Spacings, overflow_checks \in BOOLEAN :
        /\ fn' = "retime_eq_spaced"
        /\ in_glyphs' = <<glyph>>
        /\ in_space' = space_ms
        /\ panicked' = (overflow_checks /\ retime_overflows(glyph, space_ms))
        /\ out' = IF panicked' THEN <<>> ELSE retime_eq_spaced(glyph, space_ms)
    /\ UNCHANGED <<nested, in_evs, ret, wvars, avars, cvars>>

CallStitch ==
    /\ fn = "none"
    /\ \E glyphs \in StitchInputs, overflow_checks \in BOOLEAN :
        /\ fn' = "stitch_evs"
        /\ in_glyphs' = glyphs
        /\ panicked' = (overflow_checks /\ stitch_overflows(glyphs))
        /\ out' = IF panicked' THEN <<>> ELSE stitch_evs(glyphs)
    /\ UNCHANGED <<nested, in_evs, in_space, ret, wvars, avars, cvars>>

\* stitch_evs called on three glyphs at once and on its own results
CallStitchNested ==
    /\ fn = "none"
    /\ \E A \in StitchPool, B \in StitchPool, C \in StitchPool,
          overflow_checks \in BOOLEAN :
        LET ab == stitch_evs(<<A, B>>)
            bc == stitch_evs(<<B, C>>)
            overflows ==
                \/ stitch_overflows(<<A, B>>) \/ stitch_overflows(<<ab, C>>)
                \/ stitch_overflows(<<B, C>>) \/ stitch_overflows(<<A, bc>>)
                \/ stitch_overflows(<<A, B, C>>)
        IN  /\ fn' = "stitch_nested"
            /\ in_glyphs' = <<A, B, C>>
            /\ panicked' = (overflow_checks /\ overflows)
            /\ out' = IF panicked' THEN <<>> ELSE stitch_evs(<<A, B, C>>)
            /\ nested' = IF panicked' THEN <<>>
                          ELSE [left |-> stitch_evs(<<ab, C>>),
                                right |-> stitch_evs(<<A, bc>>)]
    /\ UNCHANGED <<in_evs, in_space, ret, wvars, avars, cvars>>

CallDuration ==
    /\ fn = "none"
    /\ \E glyph \in GlyphPool :
        /\ fn' = "glyph_duration"
        /\ in_glyphs' = <<glyph>>
        /\ ret' = glyph_duration(glyph)
    /\ UNCHANGED <<nested, in_evs, in_space, out, panicked, wvars, avars, cvars>>

\* the caller is done with the result
Return ==
    /\ fn # "none"
    /\ fn' = "none"
    /\ in_evs' = <<>>
    /\ in_space' = 0
    /\ in_glyphs' = <<>>
    /\ out' = <<>>
    /\ ret' = 0
    /\ panicked' = FALSE
    /\ nested' = <<>>
    /\ UNCHANGED <<wvars, avars, cvars>>

\* the encoder has not been called
WIdle ==
    /\ events = <<>>
    /\ delims = <<>>
    /\ pc = "idle"
    /\ bytes = <<>>
    /\ idx = 0
    /\ wire = <<>>
    /\ calls = <<>>
    /\ result = "none"

\* no registry has been built, no lookup made
AIdle ==
    /\ alphabets = <<>>
    /\ a_name = ""
    /\ q_kind = "none"
    /\ q_char = 0
    /\ q_key = ""
    /\ got = <<>>

\* no experiment is running
CIdle ==
    /\ exp = "none"
    /\ cpc = "idle"
    /\ ci = 0
    /\ done = FALSE
    /\ kpc = "idle"
    /\ rounds = 0

Init == BInit /\ WIdle /\ AIdle /\ CIdle

Next ==
    \/ CallEqualSpaced
    \/ CallRetime
    \/ CallStitch
    \/ CallStitchNested
    \/ CallDuration
    \/ Return

\* the timeline builders, called with any input of the bounded sets
Spec == Init /\ [][Next]_vars

-----------------------------------------------------------------------------
(* Properties of the timeline builders, checked under Spec *)

\* C1: for a non-empty trigger sequence T and a spacing s with
\* len(T)*s <= 65535, equal_spaced_evs(T, s) returns (without panicking)
\* exactly len(T)+1 events; the i-th has ms_time i*s and tag T[i]; the last
\* has tag EndGlyph and ms_time len(T)*s.
C1_EqualSpaced ==
    (/\ fn = "equal_spaced_evs"
     /\ Len(in_evs) >= 1
     /\ Len(in_evs) * in_space <= 65535)
    => /\ ~panicked
       /\ Len(out) = Len(in_evs) + 1
       /\ \A i \in 0..(Len(in_evs) - 1) :
            /\ out[i + 1].ms_time = i * in_space
            /\ out[i + 1].ev_type = in_evs[i + 1]
       /\ out[Len(out)].ev_type = 12
       /\ out[Len(out)].ms_time = Len(in_evs) * in_space

\* a three-trigger table at the largest spacing it bears has been spaced
C1_Witness ==
    /\ fn = "equal_spaced_evs"
    /\ Len(in_evs) = 3
    /\ in_space = 21845
    /\ ~panicked
    /\ out[4] = Ev(65535, 12)

\* the sum of the durations of the first n glyphs of gs
RECURSIVE SumDur(_, _)
SumDur(gs, n) == IF n = 0 THEN 0 ELSE SumDur(gs, n - 1) + glyph_duration(gs[n])

AllWellFormed(gs) == \A j \in 1..Len(gs) : WellFormed(gs[j])

\* C2: for well-formed glyphs whose durations sum to at most 65535 the
\* glyph stitch_evs returns ends in an EndGlyph event that carries the sum
\* of all input durations; for two glyphs A and B,
\* duration(stitch([A, B])) = duration(A) + duration(B).
C2_StitchDuration ==
    (/\ fn = "stitch_evs"
     /\ AllWellFormed(in_glyphs)
     /\ SumDur(in_glyphs, Len(in_glyphs)) <= 65535)
    => /\ ~panicked
       /\ out # <<>>
       /\ out[Len(out)].ev_type = 12
       /\ out[Len(out)].ms_time = SumDur(in_glyphs, Len(in_glyphs))
       /\ Len(in_glyphs) = 2 =>
            glyph_duration(out) =
                glyph_duration(in_glyphs[1]) + glyph_duration(in_glyphs[2])

\* two well-formed glyphs whose durations sum to 65535 have been stitched
C2_Witness ==
    /\ fn = "stitch_evs"
    /\ Len(in_glyphs) = 2
    /\ AllWellFormed(in_glyphs)
    /\ glyph_duration(in_glyphs[1]) = 25535
    /\ glyph_duration(in_glyphs[2]) = 40000
    /\ ~panicked
    /\ glyph_duration(out) = 65535

\* the events of g that are not EndGlyph, in order
NonEnd(g) == SelectSeq(g, LAMBDA e : e.ev_type # 12)

\* g with every timestamp increased by off (no wrapping: plain integers)
ShiftBy(g, off) == [k \in 1..Len(g) |-> Ev(g[k].ms_time + off, g[k].ev_type)]

\* what the first n glyphs of gs contribute to the stitched glyph: each
\* glyph's non-EndGlyph events, later by the durations of the glyphs before
RECURSIVE ExpectedBody(_, _)
ExpectedBody(gs, n) ==
    IF n = 0 THEN <<>>
    ELSE ExpectedBody(gs, n - 1) \o ShiftBy(NonEnd(gs[n]), SumDur(gs, n - 1))

StitchedAsDescribed ==
    /\ ~panicked
    /\ Len(out) = Len(ExpectedBody(in_glyphs, Len(in_glyphs))) + 1
    /\ SubSeq(out, 1, Len(out) - 1) = ExpectedBody(in_glyphs, Len(in_glyphs))
    /\ out[Len(out)].ev_type = 12
    /\ Cardinality({k \in 1..Len(out) : out[k].ev_type = 12}) = 1

\* C3 as written, taken on well-formed glyphs of any duration: the output
\* is, in input order, every non-EndGlyph event with its tag and its ms_time
\* plus the durations of the preceding glyphs, then exactly one EndGlyph.
C3_Original ==
    (fn = "stitch_evs" /\ AllWellFormed(in_glyphs)) => StitchedAsDescribed

\* C3, amended: the same for well-formed glyphs (one EndGlyph, last;
\* timestamps that never decrease) whose durations sum to at most 65535; and
\* stitch([equal_spaced([0],50), equal_spaced([1],50)]) is
\* (0,0),(50,1),(100,EndGlyph).
C3_Stitch ==
    /\ (/\ fn = "stitch_evs"
        /\ AllWellFormed(in_glyphs)
        /\ SumDur(in_glyphs, Len(in_glyphs)) <= 65535)
       => StitchedAsDescribed
    /\ (/\ fn = "stitch_evs"
        /\ in_glyphs = << <<Ev(0, 0), Ev(50, 12)>>, <<Ev(0, 1), Ev(50, 12)>> >>)
       => out = <<Ev(0, 0), Ev(50, 1), Ev(100, 12)>>

\* the documented scenario has been stitched
C3_Witness ==
    /\ fn = "stitch_evs"
    /\ in_glyphs = <<ScenarioA, ScenarioB>>
    /\ out = <<Ev(0, 0), Ev(50, 1), Ev(100, 12)>>

\* C4: for a well-formed glyph A, stitch([A]) has as many events as A and
\* the same tag and timestamp at every position.
C4_StitchOne ==
    (/\ fn = "stitch_evs"
     /\ Len(in_glyphs) = 1
     /\ WellFormed(in_glyphs[1]))
    => /\ ~panicked
       /\ Len(out) = Len(in_glyphs[1])
       /\ \A k \in 1..Len(out) :
            /\ out[k].ev_type = in_glyphs[1][k].ev_type
            /\ out[k].ms_time = in_glyphs[1][k].ms_time

\* a well-formed glyph with a trigger has been stitched alone
C4_Witness ==
    /\ fn = "stitch_evs"
    /\ in_glyphs = << <<Ev(25535, 1), Ev(40000, 12)>> >>
    /\ out = <<Ev(25535, 1), Ev(40000, 12)>>

RetimedAsDescribed ==
    /\ ~panicked
    /\ Len(out) = Len(in_glyphs[1])
    /\ \A i \in 0..(Len(out) - 1) :
        /\ out[i + 1].ev_type = in_glyphs[1][i + 1].ev_type
        /\ out[i + 1].ms_time = i * in_space

\* C5 as written, taken on well-formed glyphs and any spacing: retime keeps
\* the number of events and every tag, and the i-th ms_time is i*s.
C5_Original ==
    (fn = "retime_eq_spaced" /\ WellFormed(in_glyphs[1])) => RetimedAsDescribed

\* C5, amended: the same provided (len(G)-1)*s <= 65535 (G empty, or its
\* last index times the spacing fits a u16).
C5_Retime ==
    (/\ fn = "retime_eq_spaced"
     /\ \/ Len(in_glyphs[1]) = 0
        \/ (Len(in_glyphs[1]) - 1) * in_space <= 65535)
    => RetimedAsDescribed

\* a glyph whose timestamps were not equally spaced has been retimed
C5_Witness ==
    /\ fn = "retime_eq_spaced"
    /\ in_glyphs[1] = <<Ev(40000, 11), Ev(50, 0), Ev(50, 12)>>
    /\ in_space = 30
    /\ out = <<Ev(0, 11), Ev(30, 0), Ev(60, 12)>>

\* the result of equal_spaced_evs with every product reduced modulo 2^16
EqualSpacedWrapped ==
    /\ Len(out) = Len(in_evs) + 1
    /\ \A i \in 1..Len(out) : out[i].ms_time = ((i - 1) * in_space) % 65536
    /\ \A i \in 1..Len(in_evs) : out[i].ev_type = in_evs[i]
    /\ out[Len(out)].ev_type = 12

\* the result of stitch_evs with every sum reduced modulo 2^16
StitchedWrapped ==
    LET n == Len(in_glyphs)
        body == ExpectedBody(in_glyphs, n)
    IN  /\ Len(out) = Len(body) + 1
        /\ \A k \in 1..Len(body) :
            out[k] = Ev(body[k].ms_time % 65536, body[k].ev_type)
        /\ out[Len(out)] = Ev(SumDur(in_glyphs, n) % 65536, 12)

\* the call of equal_spaced_evs, or of stitch_evs on well-formed glyphs,
\* went beyond 16 bits
EqualSpacedBeyond ==
    fn = "equal_spaced_evs" /\ Len(in_evs) * in_space > 65535
StitchBeyond ==
    /\ fn = "stitch_evs"
    /\ AllWellFormed(in_glyphs)
    /\ SumDur(in_glyphs, Len(in_glyphs)) > 65535

\* C12 as written: beyond 16 bits neither builder fails; equal_spaced
\* returns len+1 events stamped i*space_ms mod 2^16 and stitch returns the
\* glyph with wrapped timestamps.
C12_Original ==
    /\ EqualSpacedBeyond => (~panicked /\ EqualSpacedWrapped)
    /\ StitchBeyond => (~panicked /\ StitchedWrapped)

\* C12, amended: beyond 16 bits a builder either panics on the overflowing
\* operation (a build with overflow checks) and returns nothing, or returns
\* the result with the timestamps reduced modulo 2^16 (a build without).
C12_Overflow ==
    /\ EqualSpacedBeyond =>
        \/ panicked /\ out = <<>>
        \/ ~panicked /\ EqualSpacedWrapped
    /\ StitchBeyond =>
        \/ panicked /\ out = <<>>
        \/ ~panicked /\ StitchedWrapped

\* two triggers at 40000 ms came back with the end stamped 80000 - 65536
C12_Witness ==
    /\ fn = "equal_spaced_evs"
    /\ in_evs = <<0, 11>>
    /\ in_space = 40000
    /\ ~panicked
    /\ out = <<Ev(0, 0), Ev(40000, 11), Ev(14464, 12)>>

\* C13: glyph_duration returns the ms_time of the last event of the glyph,
\* whatever its tag, and 0 for the glyph without events.
C13_Duration ==
    fn = "glyph_duration" =>
        LET g == in_glyphs[1]
        IN  /\ Len(g) = 0 => ret = 0
            /\ Len(g) > 0 => ret = g[Len(g)].ms_time

\* the duration of a glyph that ends in a motor event, after its EndGlyph
C13_Witness ==
    /\ fn = "glyph_duration"
    /\ in_glyphs = << <<Ev(0, 12), Ev(40000, 0)>> >>
    /\ ret = 40000

\* C16: for well-formed A, B, C whose durations sum to at most 65535,
\* stitch([stitch([A,B]),C]), stitch([A,stitch([B,C])]) and stitch([A,B,C])
\* are the same event sequence; none of the calls panics.
C16_StitchAssoc ==
    (/\ fn = "stitch_nested"
     /\ AllWellFormed(in_glyphs)
     /\ SumDur(in_glyphs, 3) <= 65535)
    => /\ ~panicked
       /\ nested.left = out
       /\ nested.right = out
       /\ Len(out) = Len(NonEnd(in_glyphs[1])) + Len(NonEnd(in_glyphs[2]))
                        + Len(NonEnd(in_glyphs[3])) + 1

\* the two scenario glyphs and a glyph of 25535 ms, stitched in the three
\* ways, gave the one glyph of 25635 ms
C16_Witness ==
    /\ fn = "stitch_nested"
    /\ in_glyphs = <<ScenarioA, <<Ev(25535, 1), Ev(25535, 12)>>, ScenarioB>>
    /\ out = <<Ev(0, 0), Ev(25585, 1), Ev(25585, 1), Ev(25635, 12)>>
    /\ nested.left = out
    /\ nested.right = out

-----------------------------------------------------------------------------
(* event.rs: the wire encoder, queue_events_as_raw *)

RAW_ENTER == 192
RAW_EXIT == 245

\* the exit byte of the other firmware revision (0xC1)
RAW_EXIT_OTHER == 193

\* the delimiters this encoder is compiled against, and the other revision's
CompiledDelims == [enter |-> RAW_ENTER, exit |-> RAW_EXIT]
OtherDelims == [enter |-> RAW_ENTER, exit |-> RAW_EXIT_OTHER]

\* u16::to_be_bytes; before it the little-endian slip
to_le_bytes(t) == <<t % U8, t \div U8>>
to_be_bytes(t) == <<t \div U8, t % U8>>

\* iter::once(ev.ev_type).chain(ev.ms_time.to_be_bytes()); before it the
\* slip of putting the timestamp first
ev_bytes_time_first(ev) == to_be_bytes(ev.ms_time) \o <<ev.ev_type>>
ev_bytes(ev) == <<ev.ev_type>> \o to_be_bytes(ev.ms_time)

\* events.iter().flat_map(..), from the k-th event on
RECURSIVE bytes_iter(_, _)
bytes_iter(evs, k) ==
    IF k > Len(evs) THEN <<>> ELSE ev_bytes(evs[k]) \o bytes_iter(evs, k + 1)

\* the Vec<u8> collected in lines 51-54; before it the slip of leaving out
\* the exit byte
frame_no_exit(evs, d) == <<d.enter>> \o bytes_iter(evs, 1)
frame_bytes(evs, d) == <<d.enter>> \o bytes_iter(evs, 1) \o <<d.exit>>

\* tty.write_all(&[byte])? and tty.flush()? when the call fails: the error
\* is returned from queue_events_as_raw; before each the slip of trying the
\* byte again, and of going on after a failed flush
write_retried == [pc |-> "write", result |-> "none"]
write_failed == [pc |-> "returned", result |-> "write_err"]
flush_ignored == [pc |-> "sleep", result |-> "none"]
flush_failed == [pc |-> "returned", result |-> "flush_err"]

\* the longest glyph of the pool handed to the encoder
MaxWireEvs == 2

\* tags and timestamps whose bytes differ: 258 = 0x0102, 65535 = 0xFFFF
WireEvSet == {Ev(t, e) : t \in {0, 30, 258, 65535}, e \in {3, EndGlyph}}

WirePool == SeqsUpTo(WireEvSet, MaxWireEvs)

\* the caller hands over a glyph a builder just returned
SendBuilt ==
    /\ pc = "idle"
    /\ fn = "equal_spaced_evs"
    /\ ~panicked
    /\ events' = out
    /\ delims' = CompiledDelims
    /\ bytes' = frame_bytes(out, CompiledDelims)
    /\ pc' = "write"
    /\ UNCHANGED <<idx, wire, calls, result, bvars, avars, cvars>>

\* the same call of the encoder built for the other firmware revision
SendBuiltOther ==
    /\ pc = "idle"
    /\ fn = "equal_spaced_evs"
    /\ ~panicked
    /\ events' = out
    /\ delims' = OtherDelims
    /\ bytes' = frame_bytes(out, OtherDelims)
    /\ pc' = "write"
    /\ UNCHANGED <<idx, wire, calls, result, bvars, avars, cvars>>

\* the caller hands over any event sequence
SendAny ==
    /\ pc = "idle"
    /\ fn = "none"
    /\ \E glyph \in WirePool :
        /\ events' = glyph
        /\ bytes' = frame_bytes(glyph, CompiledDelims)
    /\ delims' = CompiledDelims
    /\ pc' = "write"
    /\ UNCHANGED <<idx, wire, calls, result, bvars, avars, cvars>>

\* line 56, the transport takes the byte
WriteOk ==
    /\ pc = "write"
    /\ wire' = Append(wire, bytes[idx + 1])
    /\ calls' = Append(calls, "write")
    /\ pc' = "flush"
    /\ UNCHANGED <<events, delims, bytes, idx, result, bvars, avars, cvars>>

\* line 56, write_all fails: the byte is not taken
WriteErr ==
    /\ pc = "write"
    /\ calls' = Append(calls, "write_err")
    /\ pc' = write_failed.pc
    /\ result' = write_failed.result
    /\ UNCHANGED <<events, delims, bytes, idx, wire, bvars, avars, cvars>>

\* line 57; before it the slip of going on to the next byte without the
\* pause of line 58
FlushOk_no_sleep ==
    /\ pc = "flush"
    /\ calls' = Append(calls, "flush")
    /\ idx' = idx + 1
    /\ pc' = IF idx + 1 < Len(bytes) THEN "write" ELSE "returned"
    /\ result' = IF idx + 1 < Len(bytes) THEN "none" ELSE "ok"
    /\ UNCHANGED <<events, delims, bytes, wire, bvars, avars, cvars>>
FlushOk ==
    /\ pc = "flush"
    /\ calls' = Append(calls, "flush")
    /\ pc' = "sleep"
    /\ UNCHANGED <<events, delims, bytes, idx, wire, result, bvars, avars, cvars>>

\* line 57, flush fails
FlushErr ==
    /\ pc = "flush"
    /\ calls' = Append(calls, "flush_err")
    /\ pc' = flush_failed.pc
    /\ result' = flush_failed.result
    /\ UNCHANGED <<events, delims, bytes, idx, wire, bvars, avars, cvars>>

\* line 58, then the next byte, or Ok(()) after the last (line 60)
Sleep ==
    /\ pc = "sleep"
    /\ calls' = Append(calls, "sleep")
    /\ idx' = idx + 1
    /\ pc' = IF idx + 1 < Len(bytes) THEN "write" ELSE "returned"
    /\ result' = IF idx + 1 < Len(bytes) THEN "none" ELSE "ok"
    /\ UNCHANGED <<events, delims, bytes, wire, bvars, avars, cvars>>

WireNext ==
    \/ CallEqualSpaced
    \/ SendBuilt
    \/ SendBuiltOther
    \/ SendAny
    \/ WriteOk
    \/ WriteErr
    \/ FlushOk
    \/ FlushErr
    \/ Sleep

\* a glyph, built or given, is sent through a transport that may fail
SpecWire == Init /\ [][WireNext]_vars

-----------------------------------------------------------------------------
(* Properties of the wire encoder, checked under SpecWire *)

\* C6: for a glyph of n events the frame is exactly 3n+2 bytes: the enter
\* byte first, the exit byte last, and between them, event by event in
\* sequence order, the tag, the high byte and the low byte of ms_time; a
\* completed transmission has put exactly this frame on the wire.
C6_Frame ==
    pc # "idle" =>
        LET n == Len(events)
        IN  /\ Len(bytes) = 3 * n + 2
            /\ bytes[1] = delims.enter
            /\ bytes[3 * n + 2] = delims.exit
            /\ delims \in {[enter |-> 192, exit |-> 245],
                           [enter |-> 192, exit |-> 193]}
            /\ \A i \in 1..n :
                /\ bytes[3 * i - 1] = events[i].ev_type
                /\ bytes[3 * i] = events[i].ms_time \div 256
                /\ bytes[3 * i + 1] = events[i].ms_time % 256
            /\ result = "ok" => wire = bytes

\* a two-event glyph whose last timestamp is 0x0102 went out whole
C6_Witness ==
    /\ result = "ok"
    /\ Len(events) = 2
    /\ events[2] = Ev(258, 12)
    /\ Len(wire) = 8
    /\ wire[1] = 192
    /\ SubSeq(wire, 5, 8) = <<12, 1, 2, 245>>

\* the frame parser of the round trip: drop the first and the last byte,
\* read the rest as (tag, hi, lo) triples, ms_time = hi*256 + lo
ParseFrame(b) ==
    LET body == SubSeq(b, 2, Len(b) - 1)
    IN  [k \in 1..(Len(body) \div 3) |->
            Ev(body[3 * k - 1] * 256 + body[3 * k], body[3 * k - 2])]

\* C7: parsing the frame of a glyph gives back the glyph's sequence of
\* (tag, ms_time) pairs, for the collected frame and for what a completed
\* transmission put on the wire.
C7_RoundTrip ==
    /\ pc # "idle" => ParseFrame(bytes) = events
    /\ result = "ok" => ParseFrame(wire) = events

\* a glyph with the timestamps 0x0102 and 0xFFFF went out and parses back
C7_Witness ==
    /\ result = "ok"
    /\ events = <<Ev(258, 3), Ev(65535, 12)>>
    /\ ParseFrame(wire) = <<Ev(258, 3), Ev(65535, 12)>>

WriteAttempts == SelectSeq(calls, LAMBDA c : c \in {"write", "write_err"})

\* C10: a failed write or flush is the last transport call of the
\* transmission and its error is what the encoder returns; nothing of the
\* frame is written after it, the failed byte is not tried again and the
\* frame is not started again (the wire holds a prefix of the frame, each
\* byte tried once).
C10_ErrorAborts ==
    /\ \A k \in 1..Len(calls) :
        calls[k] \in {"write_err", "flush_err"} =>
            /\ k = Len(calls)
            /\ pc = "returned"
            /\ result = calls[k]
    /\ result \in {"write_err", "flush_err"} =>
            calls[Len(calls)] = result
    /\ wire = SubSeq(bytes, 1, Len(wire))
    /\ result = "write_err" => Len(wire) = idx
    /\ result = "flush_err" => Len(wire) = idx + 1
    /\ Len(WriteAttempts) = Len(wire) + (IF result = "write_err" THEN 1 ELSE 0)

\* the write of the fourth byte of an eight-byte frame failed
C10_Witness ==
    /\ result = "write_err"
    /\ pc = "returned"
    /\ Len(bytes) = 8
    /\ idx = 3
    /\ wire = SubSeq(bytes, 1, 3)
    /\ calls[Len(calls)] = "write_err"

\* the step of the loop body a transport call belongs to
CallStep(c) ==
    CASE c \in {"write", "write_err"} -> 1
      [] c \in {"flush", "flush_err"} -> 2
      [] c = "sleep" -> 0

\* C11: the transport calls of one transmission are write, flush, sleep,
\* repeated once per frame byte; the k-th write hands over the k-th byte of
\* the frame, so the bytes arrive one at a time in frame order and the
\* events in glyph order; a byte is written only after the flush and the
\* pause of the byte before it.
C11_PacedOrder ==
    /\ \A k \in 1..Len(calls) : CallStep(calls[k]) = k % 3
    /\ Len(wire) <= Len(bytes)
    /\ \A k \in 1..Len(wire) :
        /\ wire[k] = bytes[k]
        /\ calls[3 * k - 2] = "write"
        /\ k > 1 => /\ calls[3 * k - 4] = "flush"
                    /\ calls[3 * k - 3] = "sleep"
    /\ \A i \in 1..Len(events) :
        3 * i + 1 <= Len(wire) =>
            /\ wire[3 * i - 1] = events[i].ev_type
            /\ wire[3 * i] * 256 + wire[3 * i + 1] = events[i].ms_time
    /\ idx = Len(calls) \div 3
    /\ result = "ok" =>
        /\ Len(calls) = 3 * Len(bytes)
        /\ \A k \in 1..Len(calls) : calls[k] \in {"write", "flush", "sleep"}
        /\ wire = bytes

\* an eight-byte frame went out whole in 24 transport calls
C11_Witness ==
    /\ result = "ok"
    /\ Len(bytes) = 8
    /\ wire = bytes
    /\ Len(calls) = 24
    /\ SubSeq(calls, 1, 6) = <<"write", "flush", "sleep", "write", "flush", "sleep">>
    /\ SubSeq(calls, 22, 24) = <<"write", "flush", "sleep">>

-----------------------------------------------------------------------------
(* glyphs.rs: the alphabets.  A HashMap is a function on its keys; a char   *)
(* is its code point.                                                       *)

\* the slots of ascii_block, ' ' to '~' inclusive (line 21)
ASCII_SLOTS == 95

\* the code points of ' ', '~' and '\n'
SPACE == 32
TILDE == 126
NEWLINE == 10

EmptyMap == [k \in {} |-> <<>>]

\* HashMap::insert
insert(m, k, v) == (k :> v) @@ m

\* HashMap::get(k).unwrap_or(d)
get_or(m, k, d) == IF k \in DOMAIN m THEN m[k] ELSE d

\* u8::to_string
DecimalDigits == <<"0", "1", "2", "3", "4", "5", "6", "7", "8", "9">>
RECURSIVE u8_to_string(_)
u8_to_string(i) ==
    IF i < 10 THEN DecimalDigits[i + 1]
    ELSE u8_to_string(i \div 10) \o DecimalDigits[(i % 10) + 1]

\* Alphabet::default (lines 15-27)
default_glyph == <<Ev(0, 0), Ev(200, EndGlyph)>>
AlphabetDefault ==
    [ascii_block |-> [i \in 1..ASCII_SLOTS |-> default_glyph],
     char_map |-> insert(EmptyMap, NEWLINE, default_glyph),
     other_map |-> EmptyMap,
     unknown_glyph |-> default_glyph]

\* add_other_glyphs: gls is a sequence of <<key, glyph>>, inserted in order
RECURSIVE add_other_glyphs(_, _, _)
add_other_glyphs(a, gls, k) ==
    IF k > Len(gls) THEN a
    ELSE add_other_glyphs(
            [a EXCEPT !.other_map = insert(a.other_map, gls[k][1], gls[k][2])],
            gls, k + 1)

\* c >= ' ' && c <= '~' (line 41); before it the slip of taking DEL in
in_ascii_block_to_del(c) == c >= SPACE /\ c <= TILDE + 1
in_ascii_block(c) == c >= SPACE /\ c <= TILDE

\* c as usize - ' ' as usize (line 42)
ascii_index(c) == c - SPACE

\* &self.ascii_block[idx] panics when idx is not below the Vec's length
get_glyph_panics(a, c) ==
    in_ascii_block(c) /\ ascii_index(c) >= Len(a.ascii_block)

get_glyph(a, c) ==
    IF in_ascii_block(c)
    THEN a.ascii_block[ascii_index(c) + 1]
    ELSE get_or(a.char_map, c, a.unknown_glyph)

get_other_glyph(a, s) == get_or(a.other_map, s, a.unknown_glyph)

\* for i in 0..12 { other_map.insert(i.to_string(), equal_spaced_evs(&[i], space)) }
RECURSIVE insert_digits(_, _, _)
insert_digits(a, i, space) ==
    IF i >= 12 THEN a
    ELSE insert_digits(
            [a EXCEPT !.other_map =
                insert(a.other_map, u8_to_string(i), equal_spaced_evs(<<i>>, space))],
            i + 1, space)

\* init_alphabets, "distinguish": lines 174-207
DistinguishPrimitives ==
    add_other_glyphs(insert_digits(AlphabetDefault, 0, 30),
        << <<"col0_up", equal_spaced_evs(<<8, 4, 0>>, 30)>>,
           <<"col1_up", equal_spaced_evs(<<9, 5, 1>>, 30)>>,
           <<"col2_up", equal_spaced_evs(<<10, 6, 2>>, 30)>>,
           <<"col3_up", equal_spaced_evs(<<11, 7, 3>>, 30)>>,
           <<"col0_down", equal_spaced_evs(<<0, 4, 8>>, 30)>>,
           <<"col1_down", equal_spaced_evs(<<1, 5, 9>>, 30)>>,
           <<"col2_down", equal_spaced_evs(<<2, 6, 10>>, 30)>>,
           <<"col3_down", equal_spaced_evs(<<3, 7, 11>>, 30)>>,
           <<"row0_right", equal_spaced_evs(<<0, 1, 2, 3>>, 30)>>,
           <<"row1_right", equal_spaced_evs(<<4, 5, 6, 7>>, 30)>>,
           <<"row2_right", equal_spaced_evs(<<8, 9, 10, 11>>, 30)>>,
           <<"row0_left", equal_spaced_evs(<<3, 2, 1, 0>>, 30)>>,
           <<"row1_left", equal_spaced_evs(<<7, 6, 5, 4>>, 30)>>,
           <<"row2_left", equal_spaced_evs(<<11, 10, 9, 8>>, 30)>>,
           <<"clockwise",
             equal_spaced_evs(<<0, 1, 2, 3, 7, 11, 10, 9, 8, 4, 0>>, 30)>>,
           <<"anticlockwise",
             equal_spaced_evs(<<0, 4, 8, 9, 10, 11, 7, 3, 2, 1, 0>>, 30)>>,
           <<"slash", equal_spaced_evs(SlashTriggers, 30)>>,
           <<"rev_slash", equal_spaced_evs(<<8, 5, 6, 3>>, 30)>>,
           <<"backslash", equal_spaced_evs(<<0, 5, 6, 11>>, 30)>>,
           <<"rev_backslash", equal_spaced_evs(<<11, 6, 5, 0>>, 30)>> >>, 1)

\* stitch_evs(&[get_other_glyph(k1), get_other_glyph(k2), get_other_glyph(k3)])
stitched(a, k1, k2, k3) ==
    stitch_evs(<<get_other_glyph(a, k1), get_other_glyph(a, k2),
                 get_other_glyph(a, k3)>>)

\* init_alphabets, "distinguish": lines 208-242
Distinguish ==
    LET d == DistinguishPrimitives
    IN  add_other_glyphs(d,
            << <<"N", stitched(d, "col0_up", "col1_down", "col2_up")>>,
               <<"flipped_N", stitched(d, "col2_up", "col1_down", "col0_up")>>,
               <<"zig", stitched(d, "row0_right", "row1_left", "row2_right")>>,
               <<"zag", stitched(d, "row0_left", "row1_right", "row2_left")>> >>, 1)

\* init_alphabets, "roud_graff": the letters 'a' to 'z' (lines 316-341)
RoudGraffLetters ==
    << equal_spaced_evs(<<8, 4, 1, 6, 11>>, 150),
       equal_spaced_evs(<<0, 4, 8, 4, 5, 6, 7, 11, 10, 9, 8>>, 150),
       equal_spaced_evs(<<3, 2, 1, 0, 4, 8, 9, 10, 11>>, 150),
       equal_spaced_evs(<<8, 4, 0, 1, 2, 3, 7, 11, 10, 9, 8>>, 150),
       equal_spaced_evs(<<4, 5, 6, 7, 3, 2, 1, 0, 4, 8, 9, 10, 11>>, 150),
       equal_spaced_evs(<<3, 2, 1, 0, 4, 8>>, 150),
       equal_spaced_evs(<<1, 0, 4, 8, 9, 10, 11, 7, 6>>, 150),
       equal_spaced_evs(<<0, 4, 8, 4, 5, 6, 7, 11>>, 150),
       equal_spaced_evs(<<0, 4, 8>>, 150),
       equal_spaced_evs(<<3, 7, 11, 10, 9, 8>>, 150),
       equal_spaced_evs(<<3, 6, 9, 8, 4, 0, 1, 6, 11>>, 150),
       equal_spaced_evs(<<0, 4, 8, 9, 10, 11>>, 150),
       equal_spaced_evs(<<8, 4, 0, 1, 5, 6, 2, 3, 7, 11>>, 150),
       equal_spaced_evs(<<8, 4, 0, 1, 5, 10, 11, 7, 3>>, 150),
       equal_spaced_evs(<<1, 0, 4, 8, 9, 10, 11, 7, 3, 2>>, 150),
       equal_spaced_evs(<<8, 4, 0, 1, 2, 3, 7, 6, 5, 4>>, 150),
       equal_spaced_evs(<<3, 2, 1, 0, 4, 5, 6, 7, 3, 7, 11>>, 150),
       equal_spaced_evs(<<8, 4, 0, 1, 2, 3, 7, 6, 5, 4, 5, 10>>, 150),
       equal_spaced_evs(<<3, 2, 1, 0, 4, 5, 6, 7, 11, 10, 9, 8>>, 150),
       equal_spaced_evs(<<0, 1, 2, 3, 7, 11>>, 150),
       equal_spaced_evs(<<0, 4, 8, 9, 10, 11, 7, 3>>, 150),
       equal_spaced_evs(<<0, 4, 9, 6, 3>>, 150),
       equal_spaced_evs(<<0, 4, 8, 9, 5, 6, 10, 11, 7, 3>>, 150),
       equal_spaced_evs(<<0, 5, 10, 6, 2, 5, 8>>, 150),
       equal_spaced_evs(<<0, 4, 5, 6, 7, 3, 7, 11, 10, 9, 6, 3>>, 150),
       equal_spaced_evs(<<0, 1, 2, 3, 7, 6, 5, 4, 8, 9, 10, 11>>, 150) >>

\* init_alphabets, "roud_graff" (lines 244-347): 65 unknown glyphs for ' '
\* to '`', the letters, 4 unknown glyphs for '{' to '~'
RoudGraff ==
    LET r == insert_digits(AlphabetDefault, 0, 100)
    IN  [r EXCEPT !.ascii_block =
            [i \in 1..65 |-> r.unknown_glyph]
                \o RoudGraffLetters
                \o [i \in 1..4 |-> r.unknown_glyph]]

init_alphabets ==
    insert(insert(EmptyMap, "distinguish", Distinguish), "roud_graff", RoudGraff)

-----------------------------------------------------------------------------
(* Lookups in the registry *)

\* the characters looked up: every code point up to MaxCode (all of ASCII
\* and a few past it), and two far outside: e-acute and char::MAX
MaxCode == 130
CharCodes == 0..MaxCode \cup {233, 1114111}

\* the keys looked up: every key some alphabet holds, keys main.rs asks for
\* that none holds, and near misses
QueryKeys ==
    UNION {DOMAIN init_alphabets[n].other_map : n \in DOMAIN init_alphabets}
        \cup {"", "12", "00", "a", "typo", "Clockwise", "col0_up_dropout0",
              "row1_right_dropout4", "clockwise_dropout2"}

\* the registry as main builds it once, before any lookup
AInit ==
    /\ alphabets = init_alphabets
    /\ a_name = ""
    /\ q_kind = "none"
    /\ q_char = 0
    /\ q_key = ""
    /\ got = <<>>

LookupChar ==
    /\ q_kind = "none"
    /\ \E name \in DOMAIN alphabets, c \in CharCodes :
        /\ a_name' = name
        /\ q_char' = c
        /\ panicked' = get_glyph_panics(alphabets[name], c)
        /\ got' = IF panicked' THEN <<>> ELSE get_glyph(alphabets[name], c)
    /\ q_kind' = "char"
    /\ UNCHANGED <<nested, alphabets, q_key, fn, in_evs, in_space, in_glyphs, out, ret, wvars, cvars>>

LookupOther ==
    /\ q_kind = "none"
    /\ \E name \in DOMAIN alphabets, s \in QueryKeys :
        /\ a_name' = name
        /\ q_key' = s
        /\ got' = get_other_glyph(alphabets[name], s)
    /\ q_kind' = "other"
    /\ UNCHANGED <<alphabets, q_char, bvars, wvars, cvars>>

\* the caller is done with the glyph
LookupDone ==
    /\ q_kind # "none"
    /\ a_name' = ""
    /\ q_kind' = "none"
    /\ q_char' = 0
    /\ q_key' = ""
    /\ got' = <<>>
    /\ panicked' = FALSE
    /\ UNCHANGED <<nested, alphabets, fn, in_evs, in_space, in_glyphs, out, ret, wvars, cvars>>

AlphabetNext ==
    \/ LookupChar
    \/ LookupOther
    \/ LookupDone

\* lookups of characters and keys in the two alphabets of the registry
AlphabetInit == BInit /\ WIdle /\ AInit /\ CIdle

SpecAlphabet == AlphabetInit /\ [][AlphabetNext]_vars

-----------------------------------------------------------------------------
(* Properties of the lookups, checked under SpecAlphabet *)

\* the characters and the keys that have a pattern of their own
HasPattern ==
    \/ /\ q_kind = "char"
       /\ a_name = "roud_graff"
       /\ q_char \in 97..122
    \/ /\ q_kind = "other"
       /\ q_key \in {"0", "1", "2", "3", "4", "5", "6", "7", "8", "9", "10", "11"}
    \/ /\ q_kind = "other"
       /\ a_name = "distinguish"
       /\ q_key \in {"col0_up", "col1_up", "col2_up", "col3_up",
                     "col0_down", "col1_down", "col2_down", "col3_down",
                     "row0_right", "row1_right", "row2_right",
                     "row0_left", "row1_left", "row2_left",
                     "clockwise", "anticlockwise",
                     "slash", "rev_slash", "backslash", "rev_backslash",
                     "N", "flipped_N", "zig", "zag"}

\* C9: in both alphabets every lookup of a character or of a key returns a
\* glyph: it does not panic, a printable character indexes inside the 95
\* slots of the table; and a lookup of a character or key that has no
\* pattern returns the unknown glyph, (0, tag 0), (200, EndGlyph).
C9_Lookup ==
    q_kind # "none" =>
        /\ ~panicked
        /\ got # <<>>
        /\ (q_kind = "char" /\ q_char >= 32 /\ q_char <= 126) =>
                /\ Len(alphabets[a_name].ascii_block) = 95
                /\ q_char - 32 < Len(alphabets[a_name].ascii_block)
                /\ got = alphabets[a_name].ascii_block[q_char - 32 + 1]
        /\ ~HasPattern =>
                /\ got = <<Ev(0, 0), Ev(200, 12)>>
                /\ got = alphabets[a_name].unknown_glyph

\* '~', the last slot of the table, was looked up in "roud_graff"
C9_Witness ==
    /\ q_kind = "char"
    /\ a_name = "roud_graff"
    /\ q_char = 126
    /\ ~panicked
    /\ got = <<Ev(0, 0), Ev(200, 12)>>

\* every glyph an alphabet can hand out: the slots of the character table,
\* the characters and patterns of the two maps, the unknown glyph
RegistryGlyphs(a) ==
    {a.ascii_block[i] : i \in DOMAIN a.ascii_block}
        \cup {a.char_map[c] : c \in DOMAIN a.char_map}
        \cup {a.other_map[k] : k \in DOMAIN a.other_map}
        \cup {a.unknown_glyph}

\* exactly one EndGlyph, last; the other tags motors 0..11; ms_time within
\* 16 bits and never decreasing
WellFormedGlyph(g) ==
    /\ Len(g) >= 1
    /\ Cardinality({k \in 1..Len(g) : g[k].ev_type = 12}) = 1
    /\ g[Len(g)].ev_type = 12
    /\ \A k \in 1..(Len(g) - 1) : g[k].ev_type \in 0..11
    /\ \A k \in 1..Len(g) : g[k].ms_time \in 0..65535
    /\ \A k \in 1..(Len(g) - 1) : g[k].ms_time <= g[k + 1].ms_time

\* C14: every glyph of the registry init_alphabets builds, in "distinguish"
\* and in "roud_graff" (all 95 slots, the digit and gesture patterns, the
\* stitched "N", "flipped_N", "zig", "zag", the unknown glyph), is
\* well-formed, and so is every glyph a lookup hands out.
C14_RegistryWellFormed ==
    /\ DOMAIN alphabets = {"distinguish", "roud_graff"}
    /\ \A name \in DOMAIN alphabets :
        /\ Len(alphabets[name].ascii_block) = 95
        /\ \A g \in RegistryGlyphs(alphabets[name]) : WellFormedGlyph(g)
    /\ {"N", "flipped_N", "zig", "zag"} \subseteq DOMAIN alphabets["distinguish"].other_map
    /\ (q_kind # "none" /\ ~panicked) => WellFormedGlyph(got)

\* the stitched "zag" was looked up: 12 motor events 30 ms apart, then the
\* EndGlyph at 360 ms
C14_Witness ==
    /\ q_kind = "other"
    /\ a_name = "distinguish"
    /\ q_key = "zag"
    /\ Len(got) = 13
    /\ got[12] = Ev(330, 8)
    /\ got[13] = Ev(360, 12)

-----------------------------------------------------------------------------
(* main.rs: one run of an experiment.  main builds the registry, hands one *)
(* alphabet to the experiment; the experiment calibrates until a key is    *)
(* pressed, then plays glyphs.  The main task and the spawned keypress     *)
(* task interleave at their awaits.                                         *)

Experiments == {"dropout", "alphabet", "draw"}

\* main, the match on cli.exp
a_bet_name(e) == IF e = "dropout" THEN "distinguish" ELSE "roud_graff"
a_bet == alphabets[a_bet_name(exp)]

\* calibrate_until_enter: `if i == 12`
MotorKeys == 12

\* i += 1; if i == 12 { i = 0 }; before it the slip of never wrapping
next_i_no_wrap(i) == (i + 1) % U8
next_i(i) == IF i + 1 = MotorKeys THEN 0 ELSE i + 1

\* the transmissions one call of calibrate_until_enter may begin
MaxRounds == 13

\* dropout_exp: prob_pairs, the pattern and its dropout variants, and speeds
DropoutBase ==
    {"col0_up", "col2_down", "row0_left", "row1_right", "row2_right",
     "clockwise", "anticlockwise"}
DropoutVariants(g) == IF g \in {"col0_up", "col2_down"} THEN 2 ELSE 5
DropoutNames ==
    DropoutBase \cup
    UNION {{g \o "_dropout" \o u8_to_string(k) : k \in 0..(DropoutVariants(g) - 1)} :
           g \in DropoutBase}
DropoutSpeeds == {50, 150}

\* alphabet_exp and draw_exp: 'a'..='z' and the speeds
Letters == 97..122
LetterSpeeds(e) == IF e = "alphabet" THEN {150, 30} ELSE {30, 50, 70, 100, 150, 250}

\* main has built the registry and entered the experiment, which is about
\* to call calibrate_until_enter
ExpInit ==
    /\ BInit
    /\ WIdle
    /\ AInit
    /\ exp \in Experiments
    /\ cpc = "calibrate"
    /\ ci = 0
    /\ done = FALSE
    /\ kpc = "idle"
    /\ rounds = 0

\* the encoder has returned and its frame is dropped
WDrop ==
    /\ events' = <<>>
    /\ delims' = <<>>
    /\ pc' = "idle"
    /\ bytes' = <<>>
    /\ idx' = 0
    /\ wire' = <<>>
    /\ calls' = <<>>
    /\ result' = "none"

\* the retimed copy is dropped
BDrop ==
    /\ fn' = "none"
    /\ in_evs' = <<>>
    /\ in_space' = 0
    /\ in_glyphs' = <<>>
    /\ out' = <<>>
    /\ ret' = 0
    /\ panicked' = FALSE
    /\ nested' = <<>>

\* the reference into the alphabet is dropped
ADrop ==
    /\ a_name' = ""
    /\ q_kind' = "none"
    /\ q_char' = 0
    /\ q_key' = ""
    /\ got' = <<>>
    /\ UNCHANGED alphabets

\* calibrate_until_enter, lines 111-117: the flag, the spawned task, i = 0
CalibStart ==
    /\ cpc = "calibrate"
    /\ done' = FALSE
    /\ kpc' = "read_line"
    /\ ci' = 0
    /\ cpc' = "send"
    /\ UNCHANGED <<exp, rounds, bvars, wvars, avars>>

\* lines 119-120: the glyph of key i is handed to the encoder as stored
CalibSend ==
    /\ cpc = "send"
    /\ rounds < MaxRounds
    /\ LET key == u8_to_string(ci)
           glyph == get_other_glyph(a_bet, key)
       IN  /\ a_name' = a_bet_name(exp)
           /\ q_kind' = "other"
           /\ q_key' = key
           /\ got' = glyph
           /\ events' = glyph
           /\ bytes' = frame_bytes(glyph, CompiledDelims)
    /\ delims' = CompiledDelims
    /\ pc' = "write"
    /\ cpc' = "sending"
    /\ rounds' = rounds + 1
    /\ UNCHANGED <<idx, wire, calls, result, alphabets, q_char, bvars,
                   exp, ci, done, kpc>>

\* line 120 returned Ok; line 121, the pause of 150 ms
CalibSleep ==
    /\ cpc = "sending"
    /\ pc = "returned"
    /\ result = "ok"
    /\ WDrop
    /\ ADrop
    /\ cpc' = "read"
    /\ UNCHANGED <<bvars, exp, ci, done, kpc, rounds>>

\* line 120, the encoder's error leaves calibrate_until_enter, the
\* experiment and main
CalibFail ==
    /\ cpc = "sending"
    /\ pc = "returned"
    /\ result \in {"write_err", "flush_err"}
    /\ cpc' = "failed"
    /\ UNCHANGED <<exp, ci, done, kpc, rounds, bvars, wvars, avars>>

\* lines 122-129: the flag is read; break, or the next key
CalibRead ==
    /\ cpc = "read"
    /\ IF done
       THEN cpc' = "calibrated" /\ ci' = ci
       ELSE cpc' = "send" /\ ci' = next_i(ci)
    /\ UNCHANGED <<exp, done, kpc, rounds, bvars, wvars, avars>>

\* the spawned task, line 114: read_line returns
KeyPress ==
    /\ kpc = "read_line"
    /\ cpc # "failed"
    /\ kpc' = "write_flag"
    /\ UNCHANGED <<exp, cpc, ci, done, rounds, bvars, wvars, avars>>

\* the spawned task, line 115: *done_1.write().await = true
SetDone ==
    /\ kpc = "write_flag"
    /\ cpc # "failed"
    /\ done' = TRUE
    /\ kpc' = "finished"
    /\ UNCHANGED <<exp, cpc, ci, rounds, bvars, wvars, avars>>

\* calibrate_until_enter returned Ok(()): its locals are gone, the
\* experiment goes on to its problems
ExpBegin ==
    /\ cpc = "calibrated"
    /\ cpc' = "playing"
    /\ ci' = 0
    /\ rounds' = 0
    /\ UNCHANGED <<exp, done, kpc, bvars, wvars, avars>>

\* play_and_wait(tty, &retime_eq_spaced(glyph, space_ms)): the retimed copy
\* is handed to the encoder
Play(glyph, space_ms, overflow_checks) ==
    /\ fn' = "retime_eq_spaced"
    /\ in_glyphs' = <<glyph>>
    /\ in_space' = space_ms
    /\ panicked' = (overflow_checks /\ retime_overflows(glyph, space_ms))
    /\ out' = IF panicked' THEN <<>> ELSE retime_eq_spaced(glyph, space_ms)
    /\ IF panicked'
       THEN cpc' = "failed" /\ UNCHANGED wvars
       ELSE /\ events' = out'
            /\ delims' = CompiledDelims
            /\ bytes' = frame_bytes(out', CompiledDelims)
            /\ pc' = "write"
            /\ cpc' = cpc
            /\ UNCHANGED <<idx, wire, calls, result>>

\* dropout_problem, lines 155-165
PlayOther ==
    /\ cpc = "playing"
    /\ exp = "dropout"
    /\ pc = "idle"
    /\ \E key \in DropoutNames, speed \in DropoutSpeeds, overflow_checks \in BOOLEAN :
        /\ a_name' = a_bet_name(exp)
        /\ q_kind' = "other"
        /\ q_key' = key
        /\ got' = get_other_glyph(a_bet, key)
        /\ Play(get_other_glyph(a_bet, key), speed, overflow_checks)
    /\ UNCHANGED <<in_evs, ret, nested, alphabets, q_char, exp, ci, done, kpc, rounds>>

\* alphabet_exp lines 362 and 365, alphabet_problem line 304, draw_problem
\* line 442
PlayChar ==
    /\ cpc = "playing"
    /\ exp \in {"alphabet", "draw"}
    /\ pc = "idle"
    /\ \E c \in Letters, speed \in LetterSpeeds(exp), overflow_checks \in BOOLEAN :
        /\ a_name' = a_bet_name(exp)
        /\ q_kind' = "char"
        /\ q_char' = c
        /\ got' = get_glyph(a_bet, c)
        /\ Play(get_glyph(a_bet, c), speed, overflow_checks)
    /\ UNCHANGED <<in_evs, ret, nested, alphabets, q_key, exp, ci, done, kpc, rounds>>

\* play_and_wait, line 101: the encoder returned Ok, the duration is read
PlayWait ==
    /\ cpc = "playing"
    /\ pc = "returned"
    /\ result = "ok"
    /\ ret' = glyph_duration(events)
    /\ cpc' = "waiting"
    /\ UNCHANGED <<fn, in_evs, in_space, in_glyphs, out, panicked, nested,
                   wvars, avars, exp, ci, done, kpc, rounds>>

\* play_and_wait, lines 102-107: the pause is over, the glyph is dropped
PlayDone ==
    /\ cpc = "waiting"
    /\ BDrop
    /\ WDrop
    /\ ADrop
    /\ cpc' = "playing"
    /\ UNCHANGED <<exp, ci, done, kpc, rounds>>

\* play_and_wait, line 100: the encoder's error goes to the problem loop,
\* which asks whether to play the problem again
PlayFail ==
    /\ cpc = "playing"
    /\ pc = "returned"
    /\ result \in {"write_err", "flush_err"}
    /\ BDrop
    /\ WDrop
    /\ ADrop
    /\ UNCHANGED <<exp, cpc, ci, done, kpc, rounds>>

ExpNext ==
    \/ CalibStart
    \/ CalibSend
    \/ CalibSleep
    \/ CalibFail
    \/ CalibRead
    \/ KeyPress
    \/ SetDone
    \/ ExpBegin
    \/ PlayOther
    \/ PlayChar
    \/ PlayWait
    \/ PlayDone
    \/ PlayFail
    \/ WriteOk
    \/ WriteErr
    \/ FlushOk
    \/ FlushErr
    \/ Sleep

\* one run of an experiment over a transport that may fail
SpecExp == ExpInit /\ [][ExpNext]_vars

-----------------------------------------------------------------------------
(* Properties of a run of an experiment, checked under SpecExp *)

\* the frame of an event sequence holds 0xC0 and 0xF5 nowhere but at its
\* two ends
CleanFrame(evs) ==
    LET b == frame_bytes(evs, CompiledDelims)
    IN  \A k \in 2..(Len(b) - 1) : b[k] \notin {192, 245}

\* every glyph of the registry, as stored and retimed at each speed of the
\* experiments
RegistryFramesClean ==
    \A name \in DOMAIN alphabets :
        \A g \in RegistryGlyphs(alphabets[name]) :
            /\ CleanFrame(g)
            /\ \A s \in {30, 50, 70, 100, 150, 250} :
                CleanFrame(retime_eq_spaced(g, s))

\* C17: every frame an experiment hands to the encoder -- the glyph of a
\* calibration key as stored, or a glyph of the alphabet (the unknown glyph
\* for a key the alphabet lacks) retimed at 30, 50, 70, 100, 150 or 250 ms --
\* begins with 0xC0, ends with 0xF5 and holds neither byte in between; so
\* does what reaches the transport.  The same holds of every glyph of the
\* registry main built, whether an experiment asks for it or not.
C17_NoDelimiterInside ==
    /\ cpc = "calibrate" => RegistryFramesClean
    /\ pc # "idle" =>
        /\ \/ cpc \in {"sending", "failed"} /\ fn = "none" /\ events = got
           \/ /\ cpc \in {"playing", "waiting"}
              /\ fn = "retime_eq_spaced"
              /\ in_space \in {30, 50, 70, 100, 150, 250}
              /\ in_glyphs = <<got>>
              /\ events = out
        /\ Len(bytes) = 3 * Len(events) + 2
        /\ bytes[1] = 192
        /\ bytes[Len(bytes)] = 245
        /\ \A k \in 2..(Len(bytes) - 1) : bytes[k] \notin {192, 245}
        /\ \A k \in 1..Len(wire) :
            wire[k] \in {192, 245} => (k = 1 \/ k = Len(bytes))

\* the letter 'e', 13 motor events, went out whole at 250 ms: 44 bytes
C17_Witness ==
    /\ exp = "draw"
    /\ q_char = 101
    /\ in_space = 250
    /\ result = "ok"
    /\ Len(wire) = 44
    /\ wire[1] = 192
    /\ wire[44] = 245
    /\ SubSeq(wire, 41, 43) = <<12, 12, 178>>


\* the keys of the twelve motors in the order of the loop
CalibKeys == <<"0", "1", "2", "3", "4", "5", "6", "7", "8", "9", "10", "11">>

\* calibrate_until_enter, in every state: the flag is true only once the
\* keypress task has written it; the r-th transmission is that of key
\* (r-1) mod 12, sent as stored; the flag is read only after a transmission
\* and its pause, with the encoder at rest; the call returns Ok only with
\* the flag true and a transmission behind it
CalibState ==
    /\ done => kpc = "finished"
    /\ cpc = "sending" =>
        /\ rounds >= 1
        /\ ci = (rounds - 1) % 12
        /\ q_key = CalibKeys[ci + 1]
        /\ pc # "idle"
        /\ events = alphabets[a_name].other_map[q_key]
        /\ events[1].ev_type = ci
    /\ cpc = "read" => (rounds >= 1 /\ pc = "idle" /\ ci = (rounds - 1) % 12)
    /\ cpc = "calibrated" => (rounds >= 1 /\ done /\ pc = "idle")

\* calibrate_until_enter, in every step: the flag never goes back to false
\* and only the keypress task sets it; a transmission begins only at the
\* top of the loop; from the read the loop leaves with the flag true and no
\* further transmission, or goes to the top with the next key, 0 after 11
CalibStep ==
    /\ done => done'
    /\ (~done /\ done') => (kpc = "write_flag" /\ kpc' = "finished")
    /\ rounds' > rounds => (cpc = "send" /\ cpc' = "sending" /\ rounds' = rounds + 1)
    /\ (cpc = "read" /\ cpc' # "read") =>
        IF done
        THEN cpc' = "calibrated" /\ rounds' = rounds /\ pc' = "idle"
        ELSE cpc' = "send" /\ ci' = (ci + 1) % 12
    /\ cpc' = "calibrated" => cpc \in {"read", "calibrated"}
    /\ (cpc' = "read" /\ cpc # "read") => (cpc = "sending" /\ result = "ok")

\* C15: in calibrate_until_enter the flag only goes from false to true, set
\* once by the keypress task; the loop transmits before its first read of
\* the flag, reads it only after each transmit-and-sleep, returns at the
\* first read that finds it true without another transmission, and while it
\* reads false goes through the keys "0".."11" in order, 0 after 11.
C15_Calibrate == [](CalibState) /\ [][CalibStep]_vars

\* the loop went once through all twelve keys, sent "0" again, then the
\* key was pressed and the next read ended the call
C15_Witness ==
    /\ cpc = "calibrated"
    /\ rounds = 13
    /\ ci = 0
    /\ done
    /\ kpc = "finished"

=============================================================================
